---------------------------- MODULE Spec2Model ----------------------------
(***************************************************************************)
(* State-machine model of the star-registry ledger:                        *)
(*   src/src/block.js       (Block: constructor, validate, getBData)       *)
(*   src/src/blockchain.js  (Blockchain: constructor, initializeChain,     *)
(*                           _addBlock, requestMessageOwnershipVerification,*)
(*                           submitStar, getBlockByHash, getBlockByHeight, *)
(*                           getStarsByWalletAddress, validateChain)       *)
(*                                                                         *)
(* JavaScript strings are sequences of character codes.  A Promise         *)
(* executor and an async function body run synchronously up to their first *)
(* await, so every action below is one run-to-completion segment of the    *)
(* single JavaScript thread.                                               *)
(***************************************************************************)
EXTENDS Integers, Sequences, FiniteSets, TLC

(***************************************************************************)
(* Bounds of the model.                                                    *)
(***************************************************************************)
\* number of callers that may have a submitStar call in flight
NumCalls == 2
\* the chain is allowed to grow to this many blocks (genesis included)
MaxChain == 3
\* number of clock advances
MaxTicks == 1
\* number of field mutations a tamperer performs (SpecTamper only)
MaxTamper == 1

(***************************************************************************)
(* Program constants.                                                      *)
(***************************************************************************)
\* blockchain.js:164  (currentTime - messageTime) < 300
Window == 300

(***************************************************************************)
(* Character codes and string literals of the source.                      *)
(***************************************************************************)
\* ':'  (blockchain.js:115 and :162)
ColonStr == <<58>>
\* 'starRegistry'  (blockchain.js:115)
StarRegistryStr == <<115, 116, 97, 114, 82, 101, 103, 105, 115, 116, 114, 121>>
\* what String(undefined) gives parseInt: 'undefined'
UndefinedStr == <<117, 110, 100, 101, 102, 105, 110, 101, 100>>
\* '{"owner":"'
OwnerOpen == <<123, 34, 111, 119, 110, 101, 114, 34, 58, 34>>
\* '","star":"'
StarOpen == <<34, 44, 34, 115, 116, 97, 114, 34, 58, 34>>
\* '{"data":"'
DataOpen == <<123, 34, 100, 97, 116, 97, 34, 58, 34>>
\* '"}'
ObjClose == <<34, 125>>
\* 'Genesis Block'  (blockchain.js:42)
GenesisStr == <<71, 101, 110, 101, 115, 105, 115, 32, 66, 108, 111, 99, 107>>

IsDigit(c) == c >= 48 /\ c <= 57

(***************************************************************************)
(* Number.prototype.toString(): the decimal digits of a non-negative       *)
(* integer.                                                                *)
(***************************************************************************)
RECURSIVE NumToString(_)
NumToString(n) ==
    IF n < 10 THEN <<48 + n>>
    ELSE NumToString(n \div 10) \o <<48 + (n % 10)>>

(***************************************************************************)
(* new Date().getTime().toString().slice(0,-3): the clock reading in       *)
(* milliseconds, printed, with its last three characters cut off.          *)
(***************************************************************************)
TimeString(ms) ==
    LET s == NumToString(ms)
    IN  IF Len(s) <= 3 THEN <<>> ELSE SubSeq(s, 1, Len(s) - 3)

(***************************************************************************)
(* String.prototype.split(sep) for a one-character separator.              *)
(***************************************************************************)
\* the pieces of s from position i on, the current piece having begun at
\* position start
RECURSIVE SplitFrom(_, _, _, _)
SplitFrom(s, sep, start, i) ==
    IF i > Len(s) THEN <<SubSeq(s, start, Len(s))>>
    ELSE IF s[i] = sep
    THEN <<SubSeq(s, start, i - 1)>> \o SplitFrom(s, sep, i + 1, i + 1)
    ELSE SplitFrom(s, sep, start, i + 1)

Split(s, sep) == SplitFrom(s, sep, 1, 1)

(***************************************************************************)
(* parseInt(string): an optional sign, then the longest prefix of decimal  *)
(* digits; NaN when there is none.  (The strings of the model hold no      *)
(* white space and no 0x prefix.)  A number is [nan, v].                   *)
(***************************************************************************)
NaN == [nan |-> TRUE, v |-> 0]
Num(n) == [nan |-> FALSE, v |-> n]

RECURSIVE DigitsValue(_, _)
DigitsValue(s, acc) ==
    IF s = <<>> \/ ~IsDigit(Head(s)) THEN acc
    ELSE DigitsValue(Tail(s), acc * 10 + (Head(s) - 48))

ParseInt(s) ==
    LET neg  == s # <<>> /\ Head(s) = 45
        body == IF s # <<>> /\ (Head(s) = 45 \/ Head(s) = 43) THEN Tail(s) ELSE s
    IN  IF body = <<>> \/ ~IsDigit(Head(body)) THEN NaN
        ELSE Num(IF neg THEN 0 - DigitsValue(body, 0) ELSE DigitsValue(body, 0))

\* a - b and a < n on JavaScript numbers: NaN propagates, NaN < n is false
NumSub(a, b) == IF a.nan \/ b.nan THEN NaN ELSE Num(a.v - b.v)
NumLess(a, n) == ~a.nan /\ a.v < n


(***************************************************************************)
(* Payload codec.  The structured record of a block is                     *)
(*   [data |-> s]            for {data: 'Genesis Block'}                   *)
(*   [owner |-> a, star |-> s] for {owner: address, star: star}            *)
(* with strings as values.  The strings of the model hold no quote, no     *)
(* backslash and no control character, which are the characters            *)
(* JSON.stringify escapes.                                                 *)
(***************************************************************************)
\* JSON.stringify(data)
Stringify(data) ==
    IF "owner" \in DOMAIN data
    THEN OwnerOpen \o data.owner \o StarOpen \o data.star \o ObjClose
    ELSE DataOpen \o data.data \o ObjClose

\* Buffer.from(string): the UTF-8 bytes of the string (codes below 2048)
RECURSIVE Utf8(_)
Utf8(s) ==
    IF s = <<>> THEN <<>>
    ELSE LET c == Head(s)
         IN  (IF c < 128 THEN <<c>>
              ELSE <<192 + (c \div 64), 128 + (c % 64)>>) \o Utf8(Tail(s))

HexDigit(n) == IF n < 10 THEN 48 + n ELSE 87 + n

\* Buffer.prototype.toString('hex'): two lower-case hex digits per byte
RECURSIVE ToHex(_)
ToHex(bytes) ==
    IF bytes = <<>> THEN <<>>
    ELSE <<HexDigit(Head(bytes) \div 16), HexDigit(Head(bytes) % 16)>>
         \o ToHex(Tail(bytes))

IsHexDigit(c) == IsDigit(c) \/ (c >= 97 /\ c <= 102) \/ (c >= 65 /\ c <= 70)
HexValue(c) == IF IsDigit(c) THEN c - 48 ELSE IF c >= 97 THEN c - 87 ELSE c - 55

\* parseInt(pair, 16) of a one- or two-character piece
ParseHexPair(p) ==
    IF p = <<>> \/ ~IsHexDigit(p[1]) THEN NaN
    ELSE IF Len(p) = 1 \/ ~IsHexDigit(p[2]) THEN Num(HexValue(p[1]))
    ELSE Num(16 * HexValue(p[1]) + HexValue(p[2]))

(***************************************************************************)
(* hex2ascii(hex) of the hex2ascii package: for every two characters,      *)
(* String.fromCharCode(parseInt(pair, 16)), skipping NaN and 0.  One       *)
(* character per BYTE: the bytes of a multi-byte UTF-8 character come back *)
(* as separate characters.                                                 *)
(***************************************************************************)
RECURSIVE Hex2Ascii(_)
Hex2Ascii(hex) ==
    IF hex = <<>> THEN <<>>
    ELSE LET pair == SubSeq(hex, 1, IF Len(hex) >= 2 THEN 2 ELSE 1)
             rest == SubSeq(hex, Len(pair) + 1, Len(hex))
             code == ParseHexPair(pair)
         IN  (IF ~code.nan /\ code.v # 0 THEN <<code.v>> ELSE <<>>)
             \o Hex2Ascii(rest)

StartsWith(s, p) == Len(s) >= Len(p) /\ SubSeq(s, 1, Len(p)) = p
Drop(s, n) == SubSeq(s, n + 1, Len(s))
\* index of the first '"' of s, 0 when there is none
QuoteAt(s) ==
    IF \E i \in 1..Len(s) : s[i] = 34
    THEN CHOOSE i \in 1..Len(s) : s[i] = 34 /\ \A j \in 1..(i - 1) : s[j] # 34
    ELSE 0

(***************************************************************************)
(* JSON.parse(text) on the two object shapes the engine stores; any other  *)
(* text is reported as a SyntaxError ([ok |-> FALSE]).                     *)
(***************************************************************************)
JsonParse(text) ==
    IF StartsWith(text, OwnerOpen)
    THEN LET r1 == Drop(text, Len(OwnerOpen))
             q1 == QuoteAt(r1)
             r2 == Drop(r1, q1 - 1)
             r3 == Drop(r2, Len(StarOpen))
             q2 == QuoteAt(r3)
         IN  IF q1 > 0 /\ StartsWith(r2, StarOpen) /\ q2 > 0
                /\ Drop(r3, q2 - 1) = ObjClose
             THEN [ok |-> TRUE,
                   val |-> [owner |-> SubSeq(r1, 1, q1 - 1),
                            star |-> SubSeq(r3, 1, q2 - 1)]]
             ELSE [ok |-> FALSE, val |-> [data |-> <<>>]]
    ELSE IF StartsWith(text, DataOpen)
    THEN LET r1 == Drop(text, Len(DataOpen))
             q1 == QuoteAt(r1)
         IN  IF q1 > 0 /\ Drop(r1, q1 - 1) = ObjClose
             THEN [ok |-> TRUE, val |-> [data |-> SubSeq(r1, 1, q1 - 1)]]
             ELSE [ok |-> FALSE, val |-> [data |-> <<>>]]
    ELSE [ok |-> FALSE, val |-> [data |-> <<>>]]

(***************************************************************************)
(* Block (block.js).                                                       *)
(***************************************************************************)
\* null
Null == <<"null">>

\* SHA256(text).toString(): an ideal (collision-free) digest of the text
Sha256(text) == <<"sha256", text>>

\* variant: the text leaves out the time property
BlockJsonNoTime(b) == <<b.hash, b.height, b.body, b.previousBlockHash>>

\* JSON.stringify(block): the five own properties in insertion order; the
\* text determines each value and its type (null, number, string)
BlockJson(b) == <<b.hash, b.height, b.body, b.time, b.previousBlockHash>>

\* new Block(data).  time starts as 0 and _addBlock replaces it by the
\* seconds string before the block is stored; it is written '0' here so
\* that the field holds a string throughout.
NewBlock(data) ==
    [hash |-> Null, height |-> 0, body |-> ToHex(Utf8(Stringify(data))),
     time |-> <<48>>, previousBlockHash |-> Null]

\* Block.validate(): the value the promise resolves with
Validate(b) == b.hash = Sha256(BlockJson([b EXCEPT !.hash = Null]))

\* JSON.parse(hex2ascii(block.body))
DecodeBody(b) == JsonParse(Hex2Ascii(b.body))

\* Block.getBData(): rejects for the genesis block
GetBData(b) ==
    IF b.height # 0
    THEN [tag |-> "resolved", val |-> DecodeBody(b)]
    ELSE [tag |-> "rejected", val |-> DecodeBody(b)]

(***************************************************************************)
(* Blockchain (blockchain.js): the synchronous pieces of its methods.      *)
(***************************************************************************)
\* variant: every block is linked to the first block instead of the tail
AddBlockPushLinksFirst(c, h, block, ms) ==
    LET b1 == [block EXCEPT
                 !.previousBlockHash = IF Len(c) > 0 THEN c[1].hash ELSE @,
                 !.time = TimeString(ms),
                 !.height = Len(c)]
        b2 == [b1 EXCEPT !.hash = Sha256(BlockJson(b1))]
    IN  [chain |-> Append(c, b2), height |-> h + 1]

\* variant: a lost update, the block is stored over the tail it was linked to
AddBlockPushOverTail(c, h, block, ms) ==
    LET b1 == [block EXCEPT
                 !.previousBlockHash =
                     IF Len(c) > 0 THEN c[Len(c)].hash ELSE @,
                 !.time = TimeString(ms),
                 !.height = Len(c)]
        b2 == [b1 EXCEPT !.hash = Sha256(BlockJson(b1))]
    IN  [chain |-> IF Len(c) > 1 THEN [c EXCEPT ![Len(c)] = b2]
                   ELSE Append(c, b2),
         height |-> h + 1]

\* variant: the push without the increment of line 85
AddBlockPushNoIncrement(c, h, block, ms) ==
    LET b1 == [block EXCEPT
                 !.previousBlockHash =
                     IF Len(c) > 0 THEN c[Len(c)].hash ELSE @,
                 !.time = TimeString(ms),
                 !.height = Len(c)]
        b2 == [b1 EXCEPT !.hash = Sha256(BlockJson(b1))]
    IN  [chain |-> Append(c, b2), height |-> IF Len(c) > 0 THEN h ELSE h + 1]

\* variant: unshift instead of push
AddBlockPushFront(c, h, block, ms) ==
    LET b1 == [block EXCEPT
                 !.previousBlockHash =
                     IF Len(c) > 0 THEN c[Len(c)].hash ELSE @,
                 !.time = TimeString(ms),
                 !.height = Len(c)]
        b2 == [b1 EXCEPT !.hash = Sha256(BlockJson(b1))]
    IN  [chain |-> <<b2>> \o c, height |-> h + 1]

\* variant: the hash is computed before the height is assigned
AddBlockPushHashesEarly(c, h, block, ms) ==
    LET b1 == [block EXCEPT
                 !.previousBlockHash =
                     IF Len(c) > 0 THEN c[Len(c)].hash ELSE @,
                 !.time = TimeString(ms)]
        b2 == [b1 EXCEPT !.hash = Sha256(BlockJson(b1)), !.height = Len(c)]
    IN  [chain |-> Append(c, b2), height |-> h + 1]

\* _addBlock, from the start of the executor to the await (lines 78-85):
\* link to the tail, stamp, number, hash, push, height++.
AddBlockPush(c, h, block, ms) ==
    LET b1 == [block EXCEPT
                 !.previousBlockHash =
                     IF Len(c) > 0 THEN c[Len(c)].hash ELSE @,
                 !.time = TimeString(ms),
                 !.height = Len(c)]
        b2 == [b1 EXCEPT !.hash = Sha256(BlockJson(b1))]
    IN  [chain |-> Append(c, b2), height |-> h + 1]

\* validateChain, the map of line 255: block.validate() runs its executor at
\* once, so isValid of every block is fixed when validateChain is called
ValidateAll(c) == [k \in 1..Len(c) |-> Validate(c[k])]

ValidationError(i) == [block |-> i, error |-> "Block validation failed"]
LinkError(i) == [block |-> i, error |-> "Previous block hash mismatch"]

\* variant: the callback without the comparison of lines 263-265
BlockCallbackNoLink(c, valid, i) ==
    IF ~valid[i + 1] THEN <<ValidationError(i)>> ELSE <<>>

\* variant: the comparison of lines 263-265 is left out for the last block
BlockCallbackSkipsTail(c, valid, i) ==
    (IF ~valid[i + 1] THEN <<ValidationError(i)>> ELSE <<>>)
    \o (IF i > 0 /\ i + 1 < Len(c) /\ c[i + 1].previousBlockHash # c[i].hash
        THEN <<LinkError(i)>> ELSE <<>>)

\* the .then callback of block i (lines 256-266); i is the JavaScript index
BlockCallback(c, valid, i) ==
    (IF ~valid[i + 1] THEN <<ValidationError(i)>> ELSE <<>>)
    \o (IF i > 0 /\ c[i + 1].previousBlockHash # c[i].hash
        THEN <<LinkError(i)>> ELSE <<>>)

\* the callbacks of blocks 0..n-1, which run one after the other in the order
\* of the map, each pushing onto errorLog
RECURSIVE RunCallbacks(_, _, _)
RunCallbacks(c, valid, n) ==
    IF n = 0 THEN <<>>
    ELSE RunCallbacks(c, valid, n - 1) \o BlockCallback(c, valid, n - 1)

\* validateChain() on a chain nobody touches while it runs
ValidateChain(c) == RunCallbacks(c, ValidateAll(c), Len(c))

\* requestMessageOwnershipVerification (line 115)
Message(address, ms) ==
    address \o ColonStr \o TimeString(ms) \o ColonStr \o StarRegistryStr

\* submitStar lines 162-164: message.split(':')[1] is undefined when the
\* message holds no ':'
MessageTime(message) ==
    LET parts == Split(message, ColonStr[1])
    IN  ParseInt(IF Len(parts) >= 2 THEN parts[2] ELSE UndefinedStr)

CurrentTime(ms) == ParseInt(TimeString(ms))

\* variant: the comparison of line 164 written <=
IsFreshInclusive(message, ms) ==
    NumLess(NumSub(CurrentTime(ms), MessageTime(message)), Window + 1)

\* variant: a message stamped later than the clock is not fresh
IsFreshNotFuture(message, ms) ==
    LET age == NumSub(CurrentTime(ms), MessageTime(message))
    IN  NumLess(age, Window) /\ age.v >= 0

\* submitStar line 164
IsFresh(message, ms) ==
    NumLess(NumSub(CurrentTime(ms), MessageTime(message)), Window)

\* variant: the result of the verifier is not looked at
VerifyPassesAlways(verdict) == TRUE

\* submitStar line 166: the branch taken on what bitcoinMessage.verify returned
VerifyPasses(verdict) == verdict = "true"

\* getChainHeight (line 57): resolve(this.height)
GetChainHeight(h) == h

\* getBlockByHash / getBlockByHeight: Array.prototype.find, then `|| null`;
\* the result is the JavaScript index of the block found, or null
FirstOf(found) ==
    IF found = {} THEN [found |-> FALSE, idx |-> -1]
    ELSE [found |-> TRUE,
          idx |-> (CHOOSE k \in found : \A j \in found : k <= j) - 1]

GetBlockByHash(c, hash) == FirstOf({k \in 1..Len(c) : c[k].hash = hash})

\* variant: the test of line 207 written >=
GetBlockByHeightAtLeast(c, h) ==
    FirstOf({k \in 1..Len(c) : c[k].height >= h})

GetBlockByHeight(c, h) == FirstOf({k \in 1..Len(c) : c[k].height = h})

\* getStarsByWalletAddress lines 223-234: map, then filter
RECURSIVE StarsOf(_, _)
StarsOf(c, address) ==
    IF c = <<>> THEN <<>>
    ELSE LET d == DecodeBody(Head(c)).val
         IN  (IF "owner" \in DOMAIN d /\ d.owner # <<>> /\ d.owner = address
              THEN <<d.star>> ELSE <<>>) \o StarsOf(Tail(c), address)

\* getStarsByWalletAddress: JSON.parse throwing inside the executor rejects
\* the promise; an empty list is resolved as null
GetStarsByWalletAddress(c, address) ==
    IF \E k \in 1..Len(c) : ~DecodeBody(c[k]).ok
    THEN [tag |-> "rejected", val |-> <<>>]
    ELSE IF StarsOf(c, address) = <<>>
    THEN [tag |-> "null", val |-> <<>>]
    ELSE [tag |-> "resolved", val |-> StarsOf(c, address)]

(***************************************************************************)
(* Inputs of the callers and readings of the clock.                        *)
(***************************************************************************)
\* the clock (milliseconds) when the engine is constructed
StartTimes == {100999}

\* the k-th clock advance: first to one second short of the window, then by
\* one second at a time
ClockStep(k) == IF k = 1 THEN (Window - 1) * 1000 ELSE 1000

\* addresses: 'A' and 'B:7' (a caller chooses the string freely)
PlainIds == {<<65>>}
Ids == PlainIds \cup {<<66, 58, 55>>}
\* an address nothing is ever submitted under: 'C'
OtherIds == {<<67>>}
\* star data: 'x' and the degree sign of a declination (code 176)
Stars == {<<120>>, <<176>>}

\* what the external bitcoinMessage.verify does with the call: it returns
\* true, returns false, or throws (a malformed address or signature)
Verdicts == {"true", "false", "throws"}

\* strings a caller makes up instead of a challenge: 'A' (no ':'),
\* 'A:x:starRegistry' (no number) and a challenge stamped 9999 seconds
Manufactured ==
    { <<65>>,
      <<65>> \o ColonStr \o <<120>> \o ColonStr \o StarRegistryStr,
      <<65>> \o ColonStr \o <<57, 57, 57, 57>> \o ColonStr \o StarRegistryStr }

\* clock readings the presented challenges are stamped with: the engine's
\* start and one second before it
IssueTimes == StartTimes \cup {t - 1000 : t \in StartTimes}

\* the engine keeps no challenge, so what a caller presents is just a string:
\* a challenge in the format of Message, or anything else
Presented ==
    {Message(a, t) : a \in PlainIds, t \in IssueTimes} \cup Manufactured

\* the whole seconds of a clock reading
Seconds(ms) == ms \div 1000

\* history: what is known of one submitStar call.  fresh: the number in the
\* second ':'-field of the message is less than Window seconds before the
\* clock reading; stale: it is Window seconds or more before it (neither,
\* when the field holds no number); verdict: what the verifier answered
CallFacts(message, ms, verdict) ==
    LET t == MessageTime(message)
    IN  [fresh |-> ~t.nan /\ Seconds(ms) - t.v < Window,
         stale |-> ~t.nan /\ Seconds(ms) - t.v >= Window,
         verdict |-> verdict]

(***************************************************************************)
(* State.                                                                  *)
(***************************************************************************)
VARIABLES
    chain,    \* this.chain; chain[i + 1] is the JavaScript this.chain[i]
    height,   \* this.height
    now,      \* the clock, in milliseconds
    ticks,    \* number of clock advances so far
    calls,    \* per slot: the engine call in flight and where it is suspended
    log,      \* history: the submitStar calls that reached _addBlock
    obs,      \* how the last submitStar / validateChain step settled
    tampers   \* number of field mutations done to stored blocks

vars == <<chain, height, now, ticks, calls, log, obs, tampers>>

\* slots 1..NumCalls hold submitStar calls; slot 0 holds the initializeChain()
\* call the constructor starts and, once that is over, validateChain() calls
Slots == 1..NumCalls
AllSlots == 0..NumCalls

\* a new submitStar call takes the first free slot (slots are interchangeable)
FreeSlot(p) == calls[p].pc = "idle" /\ \A q \in 1..(p - 1) : calls[q].pc # "idle"

IdleCall == [pc |-> "idle", kind |-> "none", valid |-> <<>>, errors |-> <<>>,
             blk |-> -1]

\* an observation: the operation, how its promise settled, and the value
Obs(op, res, val) == [op |-> op, res |-> res, val |-> val]
NoObs == Obs("none", "none", <<>>)

\* variant: the constructor without the call of initializeChain
ConstructedEmpty(ms) == [chain |-> <<>>, height |-> -1]

\* constructor (lines 29-31) and initializeChain up to its await (41-45)
Constructed(ms) ==
    AddBlockPush(<<>>, -1, NewBlock([data |-> GenesisStr]), ms)

Init ==
    /\ now \in StartTimes
    /\ chain = Constructed(now).chain
    /\ height = Constructed(now).height
    /\ ticks = 0
    /\ calls = [p \in AllSlots |->
                  IF p = 0
                  THEN [pc |-> "validating", kind |-> "initializeChain",
                        valid |-> ValidateAll(Constructed(now).chain),
                        errors |-> <<>>, blk |-> 0]
                  ELSE IdleCall]
    /\ log = <<>>
    /\ obs = NoObs
    /\ tampers = 0

(***************************************************************************)
(* Actions.                                                                *)
(***************************************************************************)
\* the clock advances
Tick ==
    /\ ticks < MaxTicks
    /\ now' = now + ClockStep(ticks + 1)
    /\ ticks' = ticks + 1
    /\ obs' = NoObs
    /\ UNCHANGED <<chain, height, calls, log, tampers>>

\* variant: the signature is verified before the freshness is looked at
SubmitStarVerifiesFirst(p, address, message, verdict, star) ==
    /\ FreeSlot(p)
    /\ IF verdict = "throws"
       THEN /\ obs' = Obs("submitStar", "VerifierError",
                           CallFacts(message, now, verdict))
            /\ UNCHANGED <<chain, height, calls, log>>
       ELSE IF ~VerifyPasses(verdict)
       THEN /\ obs' = Obs("submitStar", "SignatureInvalid",
                           CallFacts(message, now, verdict))
            /\ UNCHANGED <<chain, height, calls, log>>
       ELSE IF ~IsFresh(message, now)
       THEN /\ obs' = Obs("submitStar", "ChallengeExpired",
                           CallFacts(message, now, verdict))
            /\ UNCHANGED <<chain, height, calls, log>>
       ELSE /\ Len(chain) < MaxChain
            /\ LET r == AddBlockPush(chain, height,
                                     NewBlock([owner |-> address, star |-> star]),
                                     now)
               IN  /\ chain' = r.chain
                   /\ height' = r.height
                   /\ calls' = [calls EXCEPT ![p] =
                                  [pc |-> "validating", kind |-> "submitStar",
                                   valid |-> ValidateAll(r.chain),
                                   errors |-> <<>>, blk |-> Len(chain)]]
            /\ log' = Append(log, [address |-> address, star |-> star,
                                   facts |-> CallFacts(message, now, verdict)])
            /\ obs' = NoObs
    /\ UNCHANGED <<now, ticks, tampers>>

\* variant: an address is served once; a later call for it is refused as
\* expired
SubmitStarOnce(p, address, message, verdict, star) ==
    /\ FreeSlot(p)
    /\ IF ~IsFresh(message, now)
          \/ \E k \in 1..Len(log) : log[k].address = address
       THEN /\ obs' = Obs("submitStar", "ChallengeExpired",
                           CallFacts(message, now, "uncalled"))
            /\ UNCHANGED <<chain, height, calls, log>>
       ELSE IF verdict = "throws"
       THEN /\ obs' = Obs("submitStar", "VerifierError",
                           CallFacts(message, now, verdict))
            /\ UNCHANGED <<chain, height, calls, log>>
       ELSE IF ~VerifyPasses(verdict)
       THEN /\ obs' = Obs("submitStar", "SignatureInvalid",
                           CallFacts(message, now, verdict))
            /\ UNCHANGED <<chain, height, calls, log>>
       ELSE /\ Len(chain) < MaxChain
            /\ LET r == AddBlockPush(chain, height,
                                     NewBlock([owner |-> address, star |-> star]),
                                     now)
               IN  /\ chain' = r.chain
                   /\ height' = r.height
                   /\ calls' = [calls EXCEPT ![p] =
                                  [pc |-> "validating", kind |-> "submitStar",
                                   valid |-> ValidateAll(r.chain),
                                   errors |-> <<>>, blk |-> Len(chain)]]
            /\ log' = Append(log, [address |-> address, star |-> star,
                                   facts |-> CallFacts(message, now, verdict)])
            /\ obs' = NoObs
    /\ UNCHANGED <<now, ticks, tampers>>

\* submitStar(address, message, signature, star), from the call to the first
\* suspension: either a rejection, or new Block, _addBlock up to the push and
\* validateChain up to its await.  verdict is what bitcoinMessage.verify
\* does with (message, address, signature).
SubmitStar(p, address, message, verdict, star) ==
    /\ FreeSlot(p)
    /\ IF ~IsFresh(message, now)
       THEN /\ obs' = Obs("submitStar", "ChallengeExpired",
                           CallFacts(message, now, "uncalled"))
            /\ UNCHANGED <<chain, height, calls, log>>
       ELSE IF verdict = "throws"
       THEN /\ obs' = Obs("submitStar", "VerifierError",
                           CallFacts(message, now, verdict))
            /\ UNCHANGED <<chain, height, calls, log>>
       ELSE IF ~VerifyPasses(verdict)
       THEN /\ obs' = Obs("submitStar", "SignatureInvalid",
                           CallFacts(message, now, verdict))
            /\ UNCHANGED <<chain, height, calls, log>>
       ELSE /\ Len(chain) < MaxChain
            /\ LET r == AddBlockPush(chain, height,
                                     NewBlock([owner |-> address, star |-> star]),
                                     now)
               IN  /\ chain' = r.chain
                   /\ height' = r.height
                   /\ calls' = [calls EXCEPT ![p] =
                                  [pc |-> "validating", kind |-> "submitStar",
                                   valid |-> ValidateAll(r.chain),
                                   errors |-> <<>>, blk |-> Len(chain)]]
            /\ log' = Append(log, [address |-> address, star |-> star,
                                   facts |-> CallFacts(message, now, verdict)])
            /\ obs' = NoObs
    /\ UNCHANGED <<now, ticks, tampers>>

\* the .then callbacks of a validateChain in flight: they were queued together
\* by the map, so they run back to back; they read the chain as it is now
VcCallbacks(p) ==
    /\ calls[p].pc = "validating"
    /\ calls' = [calls EXCEPT
                   ![p].pc = "vcdone",
                   ![p].errors = RunCallbacks(chain, calls[p].valid,
                                              Len(calls[p].valid))]
    /\ obs' = NoObs
    /\ UNCHANGED <<chain, height, now, ticks, log, tampers>>

\* variant: resolve(block) runs before reject(errors), so the errors are lost
SettleResolvesFirst(p) ==
    /\ calls[p].pc = "vcdone"
    /\ obs' = IF calls[p].kind = "validateChain"
              THEN Obs("validateChain", "resolved",
                       [blk |-> -1, errors |-> calls[p].errors])
              ELSE Obs(calls[p].kind, "resolved",
                       [blk |-> calls[p].blk, errors |-> <<>>])
    /\ calls' = [calls EXCEPT ![p] = IdleCall]
    /\ UNCHANGED <<chain, height, now, ticks, log, tampers>>

\* validateChain returns errorLog and the awaiting code resumes:
\*   _addBlock lines 89-95 and submitStar lines 168-169 / 176-178,
\*   initializeChain line 47, or the caller of validateChain()
Settle(p) ==
    /\ calls[p].pc = "vcdone"
    /\ obs' = IF calls[p].kind = "validateChain"
              THEN Obs("validateChain", "resolved",
                       [blk |-> -1, errors |-> calls[p].errors])
              ELSE IF calls[p].errors # <<>>
              THEN Obs(calls[p].kind, "rejected",
                       [blk |-> calls[p].blk, errors |-> calls[p].errors])
              ELSE Obs(calls[p].kind, "resolved",
                       [blk |-> calls[p].blk, errors |-> <<>>])
    /\ calls' = [calls EXCEPT ![p] = IdleCall]
    /\ UNCHANGED <<chain, height, now, ticks, log, tampers>>

\* validateChain() called from outside, up to its await
ValidateChainCall ==
    /\ calls[0].pc = "idle"
    /\ calls' = [calls EXCEPT ![0] =
                   [pc |-> "validating", kind |-> "validateChain",
                    valid |-> ValidateAll(chain), errors |-> <<>>, blk |-> -1]]
    /\ obs' = NoObs
    /\ UNCHANGED <<chain, height, now, ticks, log, tampers>>

\* The read operations assign nothing (UNCHANGED vars); what each returns is
\* the value of its operator in the state it is called in.
\* requestMessageOwnershipVerification(address) returns Message(address, now)
RequestMessageOwnershipVerification(address) ==
    /\ address \in Ids
    /\ UNCHANGED vars

\* getChainHeight() returns GetChainHeight(height)
GetChainHeightCall ==
    /\ UNCHANGED vars

\* getBlockByHash(hash) returns GetBlockByHash(chain, hash)
GetBlockByHashCall(hash) ==
    /\ hash # Null
    /\ UNCHANGED vars

\* getBlockByHeight(h) returns GetBlockByHeight(chain, h)
GetBlockByHeightCall(h) ==
    /\ h \in Int
    /\ UNCHANGED vars

\* getStarsByWalletAddress(address) returns
\* GetStarsByWalletAddress(chain, address)
GetStarsByWalletAddressCall(address) ==
    /\ address \in Ids \cup OtherIds
    /\ UNCHANGED vars

\* hashes a caller may ask for: those of the stored blocks and one of no block
AskedHashes == {chain[k].hash : k \in 1..Len(chain)} \cup {Sha256(<<>>)}

\* heights a caller may ask for
AskedHeights == -1..(MaxChain + 1)

Next ==
    \/ Tick
    \/ \E p \in Slots, a \in Ids, m \in Presented, v \in Verdicts,
          s \in Stars : SubmitStar(p, a, m, v, s)
    \/ \E p \in AllSlots : VcCallbacks(p)
    \/ \E p \in AllSlots : Settle(p)
    \/ ValidateChainCall
    \/ \E a \in Ids : RequestMessageOwnershipVerification(a)
    \/ GetChainHeightCall
    \/ \E h \in AskedHashes : GetBlockByHashCall(h)
    \/ \E h \in AskedHeights : GetBlockByHeightCall(h)
    \/ \E a \in Ids \cup OtherIds : GetStarsByWalletAddressCall(a)

Spec == Init /\ [][Next]_vars

(***************************************************************************)
(* Tampering: code outside the engine that holds a stored block assigns to *)
(* one of its fields.  SpecTamper is one caller, with submissions that are *)
(* accepted and submissions that are rejected, validateChain() calls, and  *)
(* the tamperer.                                                           *)
(***************************************************************************)
Fields == {"hash", "height", "body", "time", "previousBlockHash"}

\* the digest of a text no block ever had
BogusHash == Sha256(<<>>)

\* the values the tamperer may write into field f of block b, numbered
TamperValue(b, f, k) ==
    CASE f = "height" -> b.height + k
      [] f = "time" -> b.time \o <<48>>
      [] f = "body" -> NewBlock([owner |-> <<67>>, star |-> <<120>>]).body
      [] f = "previousBlockHash" -> IF k = 1 THEN Null ELSE BogusHash
      [] f = "hash" -> IF k = 1 THEN Null ELSE BogusHash

Choices(f) == IF f \in {"hash", "previousBlockHash"} THEN {1, 2} ELSE {1}

\* b with field f set to v
WithField(b, f, v) ==
    CASE f = "height" -> [b EXCEPT !.height = v]
      [] f = "time" -> [b EXCEPT !.time = v]
      [] f = "body" -> [b EXCEPT !.body = v]
      [] f = "previousBlockHash" -> [b EXCEPT !.previousBlockHash = v]
      [] f = "hash" -> [b EXCEPT !.hash = v]

\* chain[i].f = v, for the k-th value v, which differs from the stored one.
\* The writer is any code that holds the object: getBlockByHash and
\* getBlockByHeight resolve with the element of this.chain itself
\* (blockchain.js:193-194, 207-208) and submitStar resolves with the object
\* it pushed (lines 167-169), so a write to a field of such a value is a
\* write to the stored block.
Tamper(i, f, k) ==
    /\ tampers < MaxTamper
    /\ i \in 1..Len(chain)
    /\ k \in Choices(f)
    /\ WithField(chain[i], f, TamperValue(chain[i], f, k)) # chain[i]
    /\ chain' = [chain EXCEPT
                   ![i] = WithField(@, f, TamperValue(@, f, k))]
    /\ tampers' = tampers + 1
    /\ obs' = NoObs
    /\ UNCHANGED <<height, now, ticks, calls, log>>

NextTamper ==
    \/ \E a \in PlainIds, t \in StartTimes :
          SubmitStar(1, a, Message(a, t), "true", <<120>>)
    \/ \E a \in PlainIds, t \in StartTimes, v \in Verdicts \ {"true"} :
          SubmitStar(1, a, Message(a, t), v, <<120>>)
    \/ \E a \in PlainIds, v \in Verdicts : SubmitStar(1, a, a, v, <<120>>)
    \/ \E p \in {0, 1} : VcCallbacks(p)
    \/ \E p \in {0, 1} : Settle(p)
    \/ ValidateChainCall
    \/ \E i \in 1..MaxChain, f \in Fields, k \in 1..2 : Tamper(i, f, k)

SpecTamper == Init /\ [][NextTamper]_vars

(***************************************************************************)
(* Properties of Spec: the engine and its callers, no stored block touched *)
(* from outside.                                                           *)
(***************************************************************************)
\* C1 (append linearity): in every state reached by appends alone, block 0
\* has height 0 and previousBlockHash null, and every later block i has
\* height i and previousBlockHash equal to the hash of block i-1.
AppendLinearity ==
    /\ chain[1].height = 0
    /\ chain[1].previousBlockHash = Null
    /\ \A i \in 2..Len(chain) :
          /\ chain[i].height = i - 1
          /\ chain[i].previousBlockHash = chain[i - 1].hash

\* C1: the chain has grown to its bound by submitStar appends
AppendLinearityReached ==
    /\ Len(chain) = MaxChain
    /\ Len(log) = MaxChain - 1

\* the submitStar calls in flight (pushed, awaiting validateChain)
InFlight == {p \in Slots : calls[p].kind = "submitStar"}

\* C2 (concurrent append serialization): with any number of accepted
\* submitStar calls in flight and under every interleaving of their
\* callbacks, the chain holds exactly one new block per accepted call, the
\* heights of the blocks are exactly 0..n with none repeated, no two blocks
\* share a previousBlockHash, and the calls in flight pushed different blocks.
AppendSerialized ==
    /\ Len(chain) = 1 + Len(log)
    /\ {chain[i].height : i \in 1..Len(chain)} = 0..(Len(chain) - 1)
    /\ \A i, j \in 1..Len(chain) :
          i # j => /\ chain[i].height # chain[j].height
                   /\ chain[i].previousBlockHash # chain[j].previousBlockHash
    /\ \A p, q \in InFlight : p # q => calls[p].blk # calls[q].blk
    /\ \A p \in InFlight :
          /\ calls[p].blk \in 1..(Len(chain) - 1)
          /\ chain[calls[p].blk + 1].height = calls[p].blk

\* C2: two accepted submitStar calls are in flight at the same time, the
\* first having run its callbacks and the second not
AppendSerializedReached ==
    /\ calls[1].kind = "submitStar"
    /\ calls[2].kind = "submitStar"
    /\ calls[1].pc # calls[2].pc
    /\ Len(chain) = 3

\* C3 (genesis): from the moment the constructor returns the height is never
\* -1, and until the first submission is accepted the ledger has height 0
\* and exactly one block, of height 0 and previousBlockHash null, on which
\* validateChain() returns the empty list (as an operator and as a call that
\* ran); initializeChain itself settles without an error.
GenesisLedger ==
    /\ height >= 0
    /\ log = <<>> =>
          /\ height = 0
          /\ Len(chain) = 1
          /\ chain[1].height = 0
          /\ chain[1].previousBlockHash = Null
          /\ ValidateChain(chain) = <<>>
          /\ obs.op = "validateChain" => obs.val.errors = <<>>
    /\ obs.op = "initializeChain" => obs.res = "resolved"

\* C3: a validateChain() call has run to its end on the fresh ledger
GenesisLedgerReached ==
    /\ log = <<>>
    /\ obs.op = "validateChain"
    /\ obs.res = "resolved"

\* C4 (ownership gate): every block of height >= 1 was pushed by a
\* submitStar call whose challenge was within the window at the time of the
\* call and whose signature the verifier accepted, and its body decodes to
\* the address and to the star data of that call.
OwnershipGate ==
    \A i \in 2..Len(chain) :
       /\ log[i - 1].facts.fresh
       /\ log[i - 1].facts.verdict = "true"
       /\ DecodeBody(chain[i]).ok
       /\ DecodeBody(chain[i]).val.owner = log[i - 1].address
       /\ DecodeBody(chain[i]).val.star = log[i - 1].star

\* the rejections submitStar makes before it builds a block
Rejections == {"ChallengeExpired", "VerifierError", "SignatureInvalid"}

\* C5 (stale challenge rejection): a submitStar call whose challenge is 300
\* seconds old or older fails with ChallengeExpired and leaves the blocks
\* and the height as they were; no call that appends has such a challenge.
StaleRejected ==
    [][/\ (obs'.res \in Rejections /\ obs'.val.stale) =>
             /\ obs'.res = "ChallengeExpired"
             /\ chain' = chain
             /\ height' = height
       /\ Len(log') > Len(log) => ~log'[Len(log')].facts.stale]_vars

\* C5: a challenge stamped one second before the start is rejected after the
\* clock advanced by 299 seconds, that is at the age of exactly 300 seconds
StaleRejectedReached ==
    /\ ticks = 1
    /\ obs.res = "ChallengeExpired"
    /\ obs.val.stale
    /\ Seconds(now) - Window \in {Seconds(t) : t \in IssueTimes}

\* C6 (bad signature rejection): a submitStar call with a challenge within
\* the window for which the verifier returns false fails with
\* SignatureInvalid and leaves the blocks and the height as they were; no
\* call that appends has such a verdict.
BadSignatureRejected ==
    [][/\ (obs'.res \in Rejections /\ obs'.val.fresh
              /\ obs'.val.verdict = "false") =>
             /\ obs'.res = "SignatureInvalid"
             /\ chain' = chain
             /\ height' = height
       /\ Len(log') > Len(log) =>
             log'[Len(log')].facts.verdict = "true"]_vars

\* C6: a call with a fresh challenge and a refused signature was rejected
\* while the chain already held appended blocks
BadSignatureRejectedReached ==
    /\ obs.res = "SignatureInvalid"
    /\ obs.val.fresh
    /\ obs.val.verdict = "false"
    /\ Len(chain) > 1

\* seconds elapsed between the issue of a challenge and its judgement
Elapsed == {0, 1, Window - 1, Window, Window + 1}

\* C7 (challenge freshness): for every address a caller may supply, the
\* challenge issued for it now is judged fresh by submitStar's check now and
\* as long as less than 300 seconds have elapsed, and not fresh from 300
\* seconds on.
ChallengeFreshness ==
    \A a \in Ids, d \in Elapsed :
       IsFresh(Message(a, now), now + d * 1000) <=> d < Window

\* the star data accepted under address a, in the order of the appends
RECURSIVE SubmittedUnder(_, _)
SubmittedUnder(l, a) ==
    IF l = <<>> THEN <<>>
    ELSE (IF Head(l).address = a THEN <<Head(l).star>> ELSE <<>>)
         \o SubmittedUnder(Tail(l), a)

\* C10 (identity query): for every address a, getStarsByWalletAddress(a)
\* returns exactly the star data submitted under a, in append order, and
\* null exactly when nothing was submitted under a.
IdentityQuery ==
    \A a \in Ids \cup OtherIds :
       LET r == GetStarsByWalletAddress(chain, a)
           w == SubmittedUnder(log, a)
       IN  IF w = <<>> THEN r.tag = "null"
           ELSE r.tag = "resolved" /\ r.val = w

(***************************************************************************)
(* Properties of SpecTamper.                                               *)
(***************************************************************************)
\* e is one of the entries of the list r
Listed(r, e) == \E k \in 1..Len(r) : r[k] = e

\* number of entries of the list r that are e
Occurrences(r, e) == Cardinality({k \in 1..Len(r) : r[k] = e})

\* C8 (tamper detection): whenever one field (height, time,
\* previousBlockHash, body or hash) of a stored block that validates is
\* given another value and the hash is not re-derived, validate() on that
\* block is false and the list validateChain() returns holds a validation
\* error with the index of that block.
TamperDetected ==
    [][tampers' = tampers + 1 =>
          \A i \in 1..Len(chain) :
             (chain'[i] # chain[i] /\ Validate(chain[i])) =>
                /\ ~Validate(chain'[i])
                /\ Listed(ValidateChain(chain'), ValidationError(i - 1))]_vars

\* C8: a validateChain() call that ran after a block other than the first
\* was tampered with has returned a validation error
TamperDetectedReached ==
    /\ tampers = 1
    /\ obs.op = "validateChain"
    /\ \E i \in 1..(Len(chain) - 1) :
          /\ ~Validate(chain[i + 1])
          /\ Listed(obs.val.errors, ValidationError(i))

\* the link of block i (JavaScript index) to block i-1 is broken
LinkBroken(c, i) == i > 0 /\ c[i + 1].previousBlockHash # c[i].hash

\* C9 (validateChain result): on every chain, tampered with or not, the
\* list validateChain() returns holds exactly one validation error for each
\* block that fails validate(), exactly one link error for each block i > 0
\* whose previousBlockHash differs from the hash of block i-1, and nothing
\* else; it is empty iff every block validates and every link matches; and a
\* validateChain() call settles by returning, never by throwing.
ValidateChainResult ==
    LET r == ValidateChain(chain)
        idx == 0..(Len(chain) - 1)
    IN  /\ \A i \in idx :
              Occurrences(r, ValidationError(i))
                 = IF Validate(chain[i + 1]) THEN 0 ELSE 1
        /\ \A i \in idx :
              Occurrences(r, LinkError(i))
                 = IF LinkBroken(chain, i) THEN 1 ELSE 0
        /\ \A k \in 1..Len(r) :
              \E i \in idx : r[k] \in {ValidationError(i), LinkError(i)}
        /\ r = <<>> <=>
              \A i \in idx : Validate(chain[i + 1]) /\ ~LinkBroken(chain, i)
        /\ obs.op = "validateChain" => obs.res = "resolved"

\* C9: a validateChain() call has returned a list with a validation error
\* and a link error in it
ValidateChainResultReached ==
    /\ obs.op = "validateChain"
    /\ \E i, j \in 0..(Len(chain) - 1) :
          /\ Listed(obs.val.errors, ValidationError(i))
          /\ Listed(obs.val.errors, LinkError(j))
    /\ obs.val.errors = ValidateChain(chain)

\* how an append that reached its validation settles
Settled == {"resolved", "rejected"}

\* C11 (AppendError after push): when the validation that _addBlock runs
\* after the push returns a non-empty list, submitStar is rejected with that
\* list, and the pushed block and the incremented height stay (no rollback);
\* a call made while a stored block fails validate() is rejected, and it
\* still adds its block and increments the height.
AppendErrorAfterPush ==
    [][/\ (obs'.op = "submitStar" /\ obs'.res \in Settled) =>
             /\ obs'.res = "rejected" <=> obs'.val.errors # <<>>
             /\ \E p \in Slots : /\ calls[p].pc = "vcdone"
                                 /\ calls[p].errors = obs'.val.errors
                                 /\ calls[p].blk = obs'.val.blk
             /\ chain' = chain
             /\ height' = height
             /\ obs'.val.blk < Len(chain')
       /\ Len(log') > Len(log) =>
             /\ Len(chain') = Len(chain) + 1
             /\ height' = height + 1
       /\ \A p \in Slots :
             (calls'[p].pc = "vcdone" /\ calls'[p].kind = "submitStar"
                 /\ \E k \in DOMAIN calls'[p].valid : ~calls'[p].valid[k])
             => calls'[p].errors # <<>>]_vars

\* C11: the second append made after a stored block was tampered with has
\* been reported failed, and both blocks are in the chain
AppendErrorAfterPushReached ==
    /\ obs.op = "submitStar"
    /\ obs.res = "rejected"
    /\ obs.val.blk = 2
    /\ ~Validate(chain[1])
    /\ Len(chain) = 3
    /\ height = 2

\* C12 (height cache): in every state a caller can observe, also after
\* rejected submissions and after appends reported as failed, height is the
\* number of blocks minus one, and getChainHeight() returns that value.
HeightCache ==
    /\ height = Len(chain) - 1
    /\ GetChainHeight(height) = Len(chain) - 1

\* C12: the first append has just been reported as failed, its block being
\* the last of the chain
HeightCacheReached ==
    /\ obs.op = "submitStar"
    /\ obs.res = "rejected"
    /\ obs.val.blk = 1
    /\ Len(chain) = 2
    /\ GetChainHeight(height) = 1

(***************************************************************************)
(* Further properties of Spec.                                             *)
(***************************************************************************)
\* C13 (append-only): every step of every engine operation leaves the chain
\* as it is or adds exactly one block at its end, the chain before the step
\* being a prefix of the chain after it; the chain is extended only by the
\* append of an accepted submitStar call.
AppendOnly ==
    [][\/ chain' = chain
       \/ /\ Len(chain') = Len(chain) + 1
          /\ SubSeq(chain', 1, Len(chain)) = chain
          /\ Len(log') = Len(log) + 1
          /\ \E p \in Slots : /\ calls[p].pc = "idle"
                              /\ calls'[p].kind = "submitStar"
                              /\ calls'[p].blk = Len(chain)]_vars

\* C13: the chain is full and a validateChain() call has run over it
AppendOnlyReached ==
    /\ Len(chain) = MaxChain
    /\ obs.op = "validateChain"
    /\ obs.res = "resolved"

\* C14 (getBlockByHeight): on a chain whose blocks were not mutated, for
\* every integer h, getBlockByHeight(h) resolves with chain[h], whose height
\* field is h, when 0 <= h <= height, and with null for every other h.
GetByHeight ==
    \A h \in AskedHeights :
       LET r == GetBlockByHeight(chain, h)
       IN  IF 0 <= h /\ h <= height
           THEN r.found /\ r.idx = h /\ chain[r.idx + 1].height = h
           ELSE ~r.found

\* C14: the chain is full; its last block is found and the height after it
\* is not
GetByHeightReached ==
    /\ Len(chain) = MaxChain
    /\ GetBlockByHeight(chain, MaxChain - 1).idx = MaxChain - 1
    /\ ~GetBlockByHeight(chain, MaxChain).found

(***************************************************************************)
(* Further properties of SpecTamper.                                       *)
(***************************************************************************)
\* C15 (exclusive ownership): a caller writing to a field of a value that
\* getBlockByHeight, getBlockByHash or submitStar handed out leaves the
\* stored chain, and what validateChain() returns, unchanged.
ExclusiveOwnership ==
    [][tampers' = tampers + 1 =>
          /\ chain' = chain
          /\ ValidateChain(chain') = ValidateChain(chain)]_vars

(***************************************************************************)
(* Properties of the payload codec and of submitStar's checks, over Spec.  *)
(***************************************************************************)
\* the structured records a caller can have stored
Records == {[owner |-> a, star |-> s] : a \in Ids \cup OtherIds, s \in Stars}

\* C16 (codec round-trip): decoding the body that encoding a structured
\* record produced (JSON text, hex of its bytes, hex2ascii, JSON.parse)
\* gives a record equal to it; the decoded body of every stored block other
\* than the genesis block is the {owner, star} it was built from.
CodecRoundTrip ==
    /\ \A x \in Records :
          /\ DecodeBody(NewBlock(x)).ok
          /\ DecodeBody(NewBlock(x)).val = x
    /\ \A i \in 2..Len(chain) :
          GetBData(chain[i]) =
             [tag |-> "resolved",
              val |-> [ok |-> TRUE,
                       val |-> [owner |-> log[i - 1].address,
                                star |-> log[i - 1].star]]]

\* C17 (order of checks): submitStar looks at the freshness before it
\* verifies the signature.  A call with a stale challenge fails with
\* ChallengeExpired and the verifier is not called for it; no call that
\* fails with ChallengeExpired has called the verifier; SignatureInvalid is
\* reported only for a fresh challenge the verifier refused; and a block is
\* appended only for a fresh challenge the verifier accepted.
OrderOfChecks ==
    [][/\ obs'.res \in Rejections =>
             /\ obs'.val.stale => obs'.res = "ChallengeExpired"
             /\ obs'.res = "ChallengeExpired" =>
                   ~obs'.val.fresh /\ obs'.val.verdict = "uncalled"
             /\ obs'.res = "SignatureInvalid" =>
                   obs'.val.fresh /\ obs'.val.verdict = "false"
             /\ obs'.res = "VerifierError" =>
                   obs'.val.fresh /\ obs'.val.verdict = "throws"
       /\ Len(log') > Len(log) =>
             /\ log'[Len(log')].facts.fresh
             /\ log'[Len(log')].facts.verdict = "true"]_vars

\* C17: a call with a stale challenge was rejected, the verifier uncalled,
\* on a chain that two accepted calls have filled
OrderOfChecksReached ==
    /\ obs.res = "ChallengeExpired"
    /\ obs.val.stale
    /\ obs.val.verdict = "uncalled"
    /\ Len(log) = MaxChain - 1

\* challenge strings without a timestamp: 'A' (no second field),
\* 'A:x:starRegistry' and 'A:100x:starRegistry' (a second field that is not a
\* number)
Malformed ==
    { <<65>>,
      <<65>> \o ColonStr \o <<120>> \o ColonStr \o StarRegistryStr,
      <<65>> \o ColonStr \o <<49, 48, 48, 120>> \o ColonStr \o StarRegistryStr }

\* C18 (malformed challenge): a challenge string whose second ':'-field is
\* missing or is not a number is treated as not fresh by submitStar (so that
\* the call fails with ChallengeExpired, the verifier uncalled and the chain
\* unchanged), whatever the clock shows.
MalformedNotFresh ==
    /\ \A m \in Malformed : ~IsFresh(m, now)
    /\ (obs.res \in Rejections /\ ~obs.val.fresh /\ ~obs.val.stale) =>
          obs.res = "ChallengeExpired" /\ obs.val.verdict = "uncalled"

\* C19 (no spurious append failure): when no stored block is mutated, under
\* every interleaving of submitStar and validateChain calls, every
\* validation run (that of each append included) sees only valid blocks and
\* ends with the empty list, every call that reached its append resolves,
\* with the block it pushed, and every block a run can see has its hash,
\* height and previousBlockHash set and stands behind its predecessor.
NoSpuriousFailure ==
    /\ \A p \in AllSlots :
          /\ calls[p].errors = <<>>
          /\ \A k \in DOMAIN calls[p].valid : calls[p].valid[k]
          /\ Len(calls[p].valid) <= Len(chain)
          /\ calls[p].kind = "submitStar" =>
                Len(calls[p].valid) = calls[p].blk + 1
    /\ obs.res \in Settled =>
          /\ obs.res = "resolved"
          /\ obs.val.errors = <<>>
    /\ (obs.op = "submitStar" /\ obs.res = "resolved") =>
          chain[obs.val.blk + 1].height = obs.val.blk
    /\ \A i \in 1..Len(chain) :
          /\ chain[i].hash # Null
          /\ chain[i].height = i - 1
          /\ i > 1 => chain[i].previousBlockHash = chain[i - 1].hash
          /\ Validate(chain[i])

\* C19: the first of two submitStar calls has resolved with its block after
\* the second had pushed, a validateChain() call being in flight
NoSpuriousFailureReached ==
    /\ obs.op = "submitStar"
    /\ obs.res = "resolved"
    /\ obs.val.blk = 1
    /\ Len(chain) = 3
    /\ calls[0].kind = "validateChain"
    /\ calls[2].kind = "submitStar"

(***************************************************************************)
(* Reuse of a challenge.  SpecReuse is callers that present, again and     *)
(* again and with a signature the verifier accepts, the challenge issued   *)
(* at the start, the one issued a second before it, and a string stamped   *)
(* 9999 that requestMessageOwnershipVerification never returned.           *)
(***************************************************************************)
\* 'A:9999:starRegistry'
NeverIssued ==
    <<65>> \o ColonStr \o <<57, 57, 57, 57>> \o ColonStr \o StarRegistryStr

ReusedChallenges ==
    {Message(a, t) : a \in PlainIds, t \in IssueTimes} \cup {NeverIssued}

NextReuse ==
    \/ Tick
    \/ \E p \in Slots, a \in PlainIds, m \in ReusedChallenges :
          SubmitStar(p, a, m, "true", <<120>>)
    \/ \E p \in AllSlots : VcCallbacks(p)
    \/ \E p \in AllSlots : Settle(p)
    \/ \E a \in PlainIds : RequestMessageOwnershipVerification(a)

SpecReuse == Init /\ [][NextReuse]_vars

\* C20 (challenge reuse): the engine keeps no record of challenges.  A
\* submitStar call with an accepted signature is refused only when its
\* challenge is not within the window at the time of the call, however often
\* the same strings were accepted before and whether or not the challenge
\* was ever issued; every other such call appends one more block, which
\* differs from every block stored before.
ChallengeReuse ==
    [][/\ obs'.res \in Rejections =>
             /\ obs'.res = "ChallengeExpired"
             /\ ~obs'.val.fresh
             /\ chain' = chain
       /\ Len(log') > Len(log) =>
             /\ Len(chain') = Len(chain) + 1
             /\ \A i \in 1..Len(chain) : chain'[Len(chain')] # chain[i]]_vars

\* C20: the same address, star and accepted challenge appended two blocks,
\* the second after the clock advanced, and the two blocks differ
ChallengeReuseReached ==
    /\ Len(log) = 2
    /\ log[1] = log[2]
    /\ chain[2] # chain[3]
    /\ chain[2].time # chain[3].time

\* seconds by which a challenge is stamped ahead of the clock
Ahead == {1, Window, 2 * Window}

\* C21 (no lower bound on the window): the check is exactly
\* currentTime - messageTime < 300, with nothing that asks for
\* messageTime <= currentTime.  A challenge stamped d seconds ahead of the
\* clock is fresh now, and it is fresh e seconds after its stamp exactly when
\* e < 300, so that it is accepted for d + 300 seconds; the string stamped
\* 9999 is fresh at every reading of the clock.
NoLowerBound ==
    /\ \A a \in PlainIds, d \in Ahead :
          /\ IsFresh(Message(a, now + d * 1000), now)
          /\ \A e \in Elapsed :
                IsFresh(Message(a, now + d * 1000), now + (d + e) * 1000)
                   <=> e < Window
    /\ IsFresh(NeverIssued, now)
    /\ obs.res \in Rejections => obs.val.stale

\* C21: the clock has advanced by 299 seconds and two calls were accepted;
\* the challenge issued a second before the start has expired, the one
\* stamped 9999 is still accepted
NoLowerBoundReached ==
    /\ ticks = 1
    /\ Len(log) = 2
    /\ obs.res = "ChallengeExpired"
    /\ IsFresh(NeverIssued, now)
    /\ \E t \in IssueTimes, a \in PlainIds : ~IsFresh(Message(a, t), now)

(***************************************************************************)
(* Tampering with a re-derived hash.  SpecRehash is SpecTamper's caller    *)
(* and validateChain() calls, with a tamperer who, after writing a field,  *)
(* sets hash to the digest validate() will compute.                        *)
(***************************************************************************)
\* block.js:44-47 done by the tamperer: SHA256(JSON.stringify({...b, hash:
\* null})).toString() stored in b.hash
Rehash(b) == [b EXCEPT !.hash = Sha256(BlockJson([b EXCEPT !.hash = Null]))]

\* chain[i].f = v for the k-th value v of a field other than hash, then
\* chain[i].hash re-derived
TamperRehash(i, f, k) ==
    /\ tampers < MaxTamper
    /\ i \in 1..Len(chain)
    /\ f \in Fields \ {"hash"}
    /\ k \in Choices(f)
    /\ WithField(chain[i], f, TamperValue(chain[i], f, k)) # chain[i]
    /\ chain' = [chain EXCEPT
                   ![i] = Rehash(WithField(@, f, TamperValue(@, f, k)))]
    /\ tampers' = tampers + 1
    /\ obs' = NoObs
    /\ UNCHANGED <<height, now, ticks, calls, log>>

NextRehash ==
    \/ \E a \in PlainIds, t \in StartTimes :
          SubmitStar(1, a, Message(a, t), "true", <<120>>)
    \/ \E p \in {0, 1} : VcCallbacks(p)
    \/ \E p \in {0, 1} : Settle(p)
    \/ ValidateChainCall
    \/ \E i \in 1..MaxChain, f \in Fields, k \in 1..2 : TamperRehash(i, f, k)

SpecRehash == Init /\ [][NextRehash]_vars

\* block i (counted from 1) is the one a step changed
Changed(i) == chain'[i] # chain[i]

\* the errors validateChain() may report after block i of a consistent chain
\* was changed and re-hashed: a link error at the next block, and a link
\* error at the block itself when its previousBlockHash no longer matches
ExpectedAfterRehash(c, i) ==
    (IF LinkBroken(c, i - 1) THEN <<LinkError(i - 1)>> ELSE <<>>)
    \o (IF i < Len(c) THEN <<LinkError(i)>> ELSE <<>>)

\* C22 (tampering with a re-derived hash), as the code does it: when a field
\* of block i of a consistent chain is changed and the hash recomputed,
\* validate() on block i is true and validateChain() reports no validation
\* error; it reports a link error at index i+1 when i is not the tail; at
\* index i it reports nothing when height, time or body was changed (or the
\* previousBlockHash of block 0), and a link error when the
\* previousBlockHash of a block i > 0 was changed; so for the tail it returns
\* the empty list exactly in the former case.
RehashUndetected ==
    [][(tampers' = tampers + 1 /\ ValidateChain(chain) = <<>>) =>
          \A i \in 1..Len(chain) :
             Changed(i) =>
                /\ Validate(chain'[i])
                /\ ValidateChain(chain') = ExpectedAfterRehash(chain', i)
                /\ LinkBroken(chain', i - 1) <=>
                      (i > 1 /\ chain'[i].previousBlockHash
                                   # chain[i].previousBlockHash)]_vars

\* C22 as stated: validate() on block i is true, validateChain() reports no
\* error at index i, a link error at index i+1 when i is not the tail, and
\* the empty list when i is the tail.
RehashUndetectedAtIndex ==
    [][(tampers' = tampers + 1 /\ ValidateChain(chain) = <<>>) =>
          \A i \in 1..Len(chain) :
             Changed(i) =>
                LET r == ValidateChain(chain')
                IN  /\ Validate(chain'[i])
                    /\ ~Listed(r, ValidationError(i - 1))
                    /\ ~Listed(r, LinkError(i - 1))
                    /\ i < Len(chain) => Listed(r, LinkError(i))
                    /\ i = Len(chain) => r = <<>>]_vars

\* C22: a validateChain() call that ran after a block that is not the tail
\* was changed and re-hashed has returned one link error, at the next
\* index, every block validating
RehashUndetectedReached ==
    /\ tampers = 1
    /\ obs.op = "validateChain"
    /\ \A i \in 1..Len(chain) : Validate(chain[i])
    /\ \E i \in 1..(Len(chain) - 1) : obs.val.errors = <<LinkError(i)>>

=============================================================================
